---- MODULE Spec2Model ----
(***************************************************************************)
(* Model of src/app.py: the IIIF tile downloader.                          *)
(*                                                                         *)
(*   fetch_tile                 the Tile Fetcher (retry loop)              *)
(*   update_progress            the Progress Tracker (download_progress)   *)
(*   download_and_stitch_image  the background task: validation, metadata, *)
(*                              grid loops, paste, save                    *)
(*   start_download, get_progress, download_file   the request handlers    *)
(*                                                                         *)
(* Conventions.  An optional value (Python None or a value) is a sequence: *)
(* <<>> is None and <<v>> is v.  A string whose characters matter (an      *)
(* image identifier) is a sequence of one-character strings.  A formatted  *)
(* message is a tuple: its fixed text, then the values formatted into it.  *)
(* A progress number is the exact rational <<numerator, denominator>> in   *)
(* lowest terms (the code computes a float; float division, product and    *)
(* sum are monotone, so the order of the values is the same).              *)
(*                                                                         *)
(* The remote is the environment: each request it is sent ends in one of   *)
(* the outcomes of InfoOutcomes / TileOutcomes, chosen freely.  Bytes that  *)
(* are present decode to an image (of the planned size or of another) or   *)
(* to none.                                                                *)
(* Each action is one step of the code between two accesses to what the    *)
(* threads share: download_progress, the downloads directory, the remote.  *)
(***************************************************************************)
EXTENDS Integers, Sequences, FiniteSets, TLC

VARIABLES
    download_progress,  \* app.py:21   session id -> ProgressRecord (a dict)
    threads,            \* the background threads: session id -> locals of
                        \* download_and_stitch_image, with its position
    files,              \* the downloads directory: path -> file written
    last,               \* the response of the latest request handler call
    tile_call,          \* a call of fetch_tile on its own (SpecFetch)
    remote,             \* the remote's scripted outcomes for that call
    plan                \* a run of the grid loops on their own (SpecGrid)

vars == <<download_progress, threads, files, last, tile_call, remote, plan>>

----------------------------------------------------------------------------
(* Bounds of the model.                                                    *)

MaxSessions == 2     \* sessions started in Spec
MaxDim == 2          \* SpecSeq: total and tile dimensions in 1..MaxDim
MaxGridDim == 4      \* SpecGrid: total and tile dimensions in 1..MaxGridDim
MaxRetries == 3      \* SpecFetch: retries in 0..MaxRetries

(* Program constants.                                                      *)

DefaultRetries == 3  \* app.py:40  def fetch_tile(url, retries=3)

None == <<>>
Some(v) == <<v>>
IsNone(o) == o = <<>>
Get(o) == o[1]

----------------------------------------------------------------------------
(* Strings as the validation code reads them.                              *)

\* The characters str.isalnum() accepts, among those the model draws from.
AlnumChars == {"a", "1"}
\* The characters str.strip() removes, among those the model draws from.
SpaceChars == {" "}

\* str.isalnum(): non-empty and every character alphanumeric.
IsAlnum(s) == Len(s) > 0 /\ \A i \in 1..Len(s) : s[i] \in AlnumChars

\* c in s
Contains(s, c) == \E i \in 1..Len(s) : s[i] = c

\* s.replace(c, '')
Remove(s, c) == SelectSeq(s, LAMBDA ch : ch # c)

RECURSIVE LStrip(_)
LStrip(s) == IF Len(s) > 0 /\ s[1] \in SpaceChars THEN LStrip(Tail(s)) ELSE s

RECURSIVE RStrip(_)
RStrip(s) ==
    IF Len(s) > 0 /\ s[Len(s)] \in SpaceChars
    THEN RStrip(SubSeq(s, 1, Len(s) - 1))
    ELSE s

\* s.strip()
Strip(s) == RStrip(LStrip(s))

\* app.py:159-163  the two rejections of start_download, on the stripped id
IntakeEmpty(image_id) == Len(image_id) = 0

\* The format check with the separator tests alone (no isalnum()).
IntakeOnlySeparators(image_id) ==
    \/ Contains(image_id, "/")
    \/ Contains(image_id, "\\")

IntakeInvalid(image_id) ==
    \/ Contains(image_id, "/")
    \/ Contains(image_id, "\\")
    \/ ~IsAlnum(Remove(Remove(image_id, "_"), "-"))

IntakeRejects(image_id) == IntakeEmpty(image_id) \/ IntakeInvalid(image_id)

\* app.py:79  the rejection of download_and_stitch_image
TaskInvalid(image_id) ==
    \/ Contains(image_id, "/")
    \/ Contains(image_id, "\\")
    \/ ~IsAlnum(image_id)

\* app.py:89  output_file: downloads/<image_id>_stitched.jpg
OutputFile(image_id) == <<"downloads">> \o image_id \o <<"_stitched.jpg">>

----------------------------------------------------------------------------
(* The grid loops of download_and_stitch_image (the Grid Planner).         *)

Min(a, b) == IF a < b THEN a ELSE b

\* math.ceil(a / b) for positive integers (the float quotient is exact far
\* beyond any canvas Image.new can allocate).
CeilDiv(a, b) == (a + b - 1) \div b

Meta(w, h, tw, th) == [width |-> w, height |-> h, tile_width |-> tw, tile_height |-> th]

Cols(m) == CeilDiv(m.width, m.tile_width)          \* app.py:103
Rows(m) == CeilDiv(m.height, m.tile_height)        \* app.py:104
TotalTiles(m) == Cols(m) * Rows(m)                 \* app.py:105

\* The region without the min() of app.py:117-118 (every tile nominal).
RegionUnclipped(m, row, col) ==
    <<col * m.tile_width, row * m.tile_height, m.tile_width, m.tile_height>>

\* app.py:115-119  the region of the tile at (row, col): <<x, y, w, h>>

Region(m, row, col) ==
    LET x == col * m.tile_width
        y == row * m.tile_height
    IN  <<x, y, Min(m.tile_width, m.width - x), Min(m.tile_height, m.height - y)>>

\* The loops with the inner one left after its first pass: each row's
\* first cell only.
NextCellFirstColumn(m, row, col) == <<row + 1, 0>>

\* app.py:113-114  the loop counters after the body at (row, col): the inner
\* loop's next col, or the outer loop's next row; row = Rows(m) ends both.
NextCell(m, row, col) ==
    IF col + 1 < Cols(m) THEN <<row, col + 1>> ELSE <<row + 1, 0>>

----------------------------------------------------------------------------
(* fetch_tile (app.py:40-60).                                              *)

\* What one requests.get can do: a response (status_code, content) or a
\* transport exception.  content is <<>> (no bytes) or <<w, h>>, the size of
\* the image the bytes decode to.
Response(code, content) == [kind |-> "response", status_code |-> code, content |-> content]
TransportError == [kind |-> "exception", status_code |-> 0, content |-> <<>>]

\* Exceptions: their type and what str(e) shows.
HTTPError(code) == [type |-> "HTTPError", detail |-> <<"status", code>>]
ConnectionFailed == [type |-> "ConnectionError", detail |-> <<"transport", 0>>]
RetriesFailed == [type |-> "RequestException", detail |-> <<"Failed to fetch tile after all retries", 0>>]
TileFailed == [type |-> "RequestException", detail |-> <<"Failed to download tile", 0>>]
KeyError(key) == [type |-> "KeyError", detail |-> <<key, 0>>]
IndexError == [type |-> "IndexError", detail |-> <<"list index out of range", 0>>]
\* requests (2.27 and later): Response.json() on a body that is not JSON
\* raises requests.exceptions.JSONDecodeError, a RequestException.
JSONDecodeError == [type |-> "JSONDecodeError", detail |-> <<"Expecting value: line 1 column 1 (char 0)", 0>>]

\* requests: Response.raise_for_status() raises HTTPError for 4xx and 5xx.
RaisesForStatus(code) == 400 <= code /\ code < 600

\* app.py:56-60  after the loop
AfterLoop(f) ==
    IF ~IsNone(f.resp)
    THEN IF RaisesForStatus(Get(f.resp).status_code)
         THEN [f EXCEPT !.state = "raised", !.exc = Some(HTTPError(Get(f.resp).status_code))]
         ELSE [f EXCEPT !.state = "returned", !.result = None]
    ELSE [f EXCEPT !.state = "raised", !.exc = Some(RetriesFailed)]

\* app.py:42-43  entry: resp = None, then the for loop over 1..retries
FetchEnter(url, retries) ==
    LET f == [url |-> url, retries |-> retries, attempt |-> 0, resp |-> None,
              sleeps |-> 0, state |-> "loop", result |-> None, exc |-> None]
    IN  IF retries < 1 THEN AfterLoop(f) ELSE f

\* app.py:43-54  one iteration of the loop, requests.get doing `outcome`
FetchAttempt(f, outcome) ==
    LET a == f.attempt + 1
        g == [f EXCEPT !.attempt = a]
    IN  IF outcome.kind = "response"
        THEN IF outcome.status_code = 200
             THEN [g EXCEPT !.resp = Some(outcome), !.state = "returned",
                            !.result = Some(outcome)]
             ELSE LET h == [g EXCEPT !.resp = Some(outcome), !.sleeps = @ + 1]
                  IN  IF a = f.retries THEN AfterLoop(h) ELSE h
        ELSE IF a = f.retries
             THEN [g EXCEPT !.state = "raised", !.exc = Some(ConnectionFailed)]
             ELSE [g EXCEPT !.sleeps = @ + 1]

----------------------------------------------------------------------------
(* update_progress (app.py:62-71): the Progress Tracker.                   *)

\* The dict literal of app.py:64-71.
\* 'timestamp' is a reading of the wall clock that no code reads back; the
\* model leaves the clock out and counts each thread's calls instead
\* (threads[s].updates).
ProgressRecord(message, progress, error, completed, file_path) ==
    [message |-> message, progress |-> progress, error |-> error,
     completed |-> completed, file_path |-> file_path]

\* download_progress[session_id] = {...}: the key is added or its value replaced.
SetItem(d, k, v) == [x \in (DOMAIN d) \cup {k} |-> IF x = k THEN v ELSE d[x]]

\* A number as the exact rational <<n, d>> in lowest terms.
RECURSIVE Gcd(_, _)
Gcd(a, b) == IF b = 0 THEN a ELSE Gcd(b, a % b)
Rat(n, d) == LET g == Gcd(n, d) IN <<n \div g, d \div g>>
Num(n) == <<n, 1>>
RatLeq(p, q) == p[1] * q[2] <= q[1] * p[2]

\* The tile progress scaled to end at 100, not 90: 5 + (k / N) * 95.
TileProgressTo100(tile_num, total_tiles) ==
    Rat(5 * total_tiles + 95 * tile_num, total_tiles)

\* app.py:131  progress = 5 + (tile_num / total_tiles) * 85

TileProgress(tile_num, total_tiles) ==
    Rat(5 * total_tiles + 85 * tile_num, total_tiles)

\* update_progress as dict.update over the arguments that are not None: a
\* field left out keeps the value of the previous record.
UpdateProgressMerge(session_id, message, progress, error, completed, file_path) ==
    LET had == session_id \in DOMAIN download_progress
        old == IF had THEN download_progress[session_id]
               ELSE ProgressRecord(message, None, None, FALSE, None)
        Keep(new, prev) == IF IsNone(new) THEN prev ELSE new
    IN  download_progress' =
            SetItem(download_progress, session_id,
                    ProgressRecord(message, Keep(progress, old.progress),
                                   Keep(error, old.error), completed \/ old.completed,
                                   Keep(file_path, old.file_path)))

\* update_progress(session_id, message, progress, error, completed, file_path)
\* as an action on download_progress.
UpdateProgress(session_id, message, progress, error, completed, file_path) ==
    download_progress' =
        SetItem(download_progress, session_id,
                ProgressRecord(message, progress, error, completed, file_path))

\* The locals of thread t after its next call of update_progress.
Counted(t) == [t EXCEPT !.updates = @ + 1]

----------------------------------------------------------------------------
(* download_and_stitch_image (app.py:73-146): one background thread.       *)

NoMeta == Meta(0, 0, 0, 0)
NoCall == [url |-> <<0, 0, 0, 0>>, retries |-> 0, attempt |-> 0, resp |-> None,
           sleeps |-> 0, state |-> "none", result |-> None, exc |-> None]

\* The locals of a thread that start_download has just started.  `returned`
\* tells whether the start_download call that started it has returned its
\* reply (app.py:173).
NewThread(image_id) ==
    [image_id |-> image_id, pc |-> "begin", meta |-> NoMeta, row |-> 0, col |-> 0,
     tile_num |-> 0, canvas |-> <<>>, requested |-> <<>>, info_requests |-> 0,
     call |-> NoCall, resp |-> None, exc |-> None, updates |-> 0, returned |-> FALSE]

\* The exceptions `except requests.exceptions.RequestException` catches.
IsRequestException(e) ==
    e.type \in {"HTTPError", "ConnectionError", "RequestException", "JSONDecodeError"}

\* What the metadata request can do.  The content of its response is <<>>
\* for a body that is not JSON (no bytes, an HTML page) and <<j>> for a body
\* that parses to the object j, a record of the keys it has; "tiles" is the
\* list of its tile entries.
Body(info) == [kind |-> "response", status_code |-> 200, content |-> <<info>>]

\* The descriptor of an image m, and the same with a first tile that has no
\* "height" (its tiles are square).
Descriptor(m) ==
    Body([width |-> m.width, height |-> m.height,
          tiles |-> <<[width |-> m.tile_width, height |-> m.tile_height]>>])
SquareDescriptor(m) ==
    Body([width |-> m.width, height |-> m.height, tiles |-> <<[width |-> m.tile_width]>>])

\* A body under status 200 that is not JSON.
BadBody == [kind |-> "response", status_code |-> 200, content |-> <<>>]

\* JSON objects that lack something app.py:99-100 reads: no "width", no
\* "height", no "tiles", an empty "tiles" list, a first tile without "width".
FieldlessBodies ==
    {Body([tiles |-> <<>>]),
     Body([width |-> 1]),
     Body([width |-> 1, height |-> 1]),
     Body([width |-> 1, height |-> 1, tiles |-> <<>>]),
     Body([width |-> 1, height |-> 1, tiles |-> <<[height |-> 1]>>])}

InfoOutcomes(metas) ==
    {Descriptor(m) : m \in metas}
        \cup {SquareDescriptor(m) : m \in {x \in metas : x.tile_height = x.tile_width}}
        \cup FieldlessBodies
        \cup {BadBody, Response(204, <<>>), Response(404, <<>>), TransportError}

\* app.py:99-100  the exception of the first subscript that fails, in the
\* order the code evaluates them: info["width"], info["height"],
\* info["tiles"], [0], ["width"]; None when all are there.
DescriptorError(info) ==
    IF "width" \notin DOMAIN info THEN Some(KeyError("width"))
    ELSE IF "height" \notin DOMAIN info THEN Some(KeyError("height"))
    ELSE IF "tiles" \notin DOMAIN info THEN Some(KeyError("tiles"))
    ELSE IF Len(info.tiles) = 0 THEN Some(IndexError)
    ELSE IF "width" \notin DOMAIN info.tiles[1] THEN Some(KeyError("width"))
    ELSE None

\* app.py:99-101  width, height, tile_width, and
\* tile_height = info["tiles"][0].get("height", tile_width)
ReadDescriptor(info) ==
    LET tile == info.tiles[1]
    IN  Meta(info.width, info.height, tile.width,
             IF "height" \in DOMAIN tile THEN tile.height ELSE tile.width)

\* The content of a tile response: <<>> for no bytes, <<w, h>> for bytes
\* that decode to an image of w x h, NotAnImage for bytes that do not decode.
NotAnImage == <<0>>
Decodes(content) == Len(content) = 2

\* PIL: Image.open raises UnidentifiedImageError (an OSError) on such bytes.
UnidentifiedImage == [type |-> "UnidentifiedImageError", detail |-> <<"cannot identify image file", 0>>]

\* What a tile request can do, for a tile planned as w x h: the tile, a tile
\* of another size, bytes that are no image, no bytes, a status that is not
\* 200, a transport exception.
TileOutcomes(w, h) ==
    {Response(200, <<w, h>>), Response(200, <<w + 1, h>>), Response(200, NotAnImage),
     Response(200, <<>>), Response(204, <<>>), Response(404, <<>>), TransportError}

\* The same under concurrent sessions: the tile, or a failure status.
ConcTiles(w, h) == {Response(200, <<w, h>>), Response(404, <<>>)}

\* app.py:76
TaskBegin(s) ==
    /\ threads[s].pc = "begin"
    /\ UpdateProgress(s, <<"Fetching image metadata...">>, Some(Num(0)), None, FALSE, None)
    /\ threads' = [threads EXCEPT ![s] = Counted([@ EXCEPT !.pc = "validate"])]
    /\ UNCHANGED <<files, last, tile_call, remote, plan>>

\* The validation without the `return` of app.py:81: the task goes on.
TaskValidateNoReturn(s) ==
    /\ threads[s].pc = "validate"
    /\ IF TaskInvalid(threads[s].image_id)
       THEN /\ UpdateProgress(s, <<"Invalid image ID">>, None,
                              Some(<<"Please provide a valid alphanumeric IIIF image ID">>),
                              FALSE, None)
            /\ threads' = [threads EXCEPT ![s] = Counted([@ EXCEPT !.pc = "metadata"])]
       ELSE /\ threads' = [threads EXCEPT ![s].pc = "metadata"]
            /\ UNCHANGED download_progress
    /\ UNCHANGED <<files, last, tile_call, remote, plan>>

\* app.py:79-89
TaskValidate(s) ==
    /\ threads[s].pc = "validate"
    /\ IF TaskInvalid(threads[s].image_id)
       THEN /\ UpdateProgress(s, <<"Invalid image ID">>, None,
                              Some(<<"Please provide a valid alphanumeric IIIF image ID">>),
                              FALSE, None)
            /\ threads' = [threads EXCEPT ![s] = Counted([@ EXCEPT !.pc = "done"])]
       ELSE /\ threads' = [threads EXCEPT ![s].pc = "metadata"]
            /\ UNCHANGED download_progress
    /\ UNCHANGED <<files, last, tile_call, remote, plan>>

\* app.py:95-101
TaskMetadata(s, outcome) ==
    /\ threads[s].pc = "metadata"
    /\ threads' =
         [threads EXCEPT ![s] =
            LET t == [@ EXCEPT !.info_requests = @ + 1]
            IN  IF outcome.kind = "exception"
                THEN [t EXCEPT !.pc = "except", !.exc = Some(ConnectionFailed)]
                ELSE IF RaisesForStatus(outcome.status_code)
                THEN [t EXCEPT !.pc = "except", !.exc = Some(HTTPError(outcome.status_code))]
                ELSE IF IsNone(outcome.content)
                THEN [t EXCEPT !.pc = "except", !.exc = Some(JSONDecodeError)]
                ELSE IF ~IsNone(DescriptorError(Get(outcome.content)))
                THEN [t EXCEPT !.pc = "except", !.exc = DescriptorError(Get(outcome.content))]
                ELSE [t EXCEPT !.pc = "plan", !.meta = ReadDescriptor(Get(outcome.content))]]
    /\ UNCHANGED <<download_progress, files, last, tile_call, remote, plan>>

\* The loops over range(rows - 1): the last row of tiles is never entered.
EnterCellOffByOne(t, row, col) ==
    IF row < Rows(t.meta) - 1
    THEN [t EXCEPT !.row = row, !.col = col, !.pc = "fetch",
                   !.requested = Append(@, Region(t.meta, row, col)),
                   !.call = FetchEnter(Region(t.meta, row, col), DefaultRetries)]
    ELSE [t EXCEPT !.row = row, !.col = col, !.pc = "saving", !.call = NoCall]

\* app.py:119-123  the loop body up to the call of fetch_tile for (row, col),
\* or, with the loops over, the way on to app.py:134.
EnterCell(t, row, col) ==
    IF row < Rows(t.meta)
    THEN [t EXCEPT !.row = row, !.col = col, !.pc = "fetch",
                   !.requested = Append(@, Region(t.meta, row, col)),
                   !.call = FetchEnter(Region(t.meta, row, col), DefaultRetries)]
    ELSE [t EXCEPT !.row = row, !.col = col, !.pc = "saving", !.call = NoCall]

\* app.py:103-114
TaskPlan(s) ==
    /\ threads[s].pc = "plan"
    /\ LET m == threads[s].meta
       IN  UpdateProgress(s, <<"Image size, downloading tiles", m.width, m.height, TotalTiles(m)>>,
                          Some(Num(5)), None, FALSE, None)
    /\ threads' = [threads EXCEPT ![s] =
                     EnterCell(Counted([@ EXCEPT !.canvas = <<>>, !.tile_num = 0]), 0, 0)]
    /\ UNCHANGED <<files, last, tile_call, remote, plan>>

\* fetch_tile reporting each failed attempt to the tracker before it tries
\* again.
TaskFetchReporting(s, outcome) ==
    /\ threads[s].pc = "fetch"
    /\ threads[s].call.state = "loop"
    /\ LET f == FetchAttempt(threads[s].call, outcome)
       IN  IF f.state = "raised"
           THEN /\ threads' = [threads EXCEPT ![s] = [@ EXCEPT !.call = NoCall, !.pc = "except", !.exc = f.exc]]
                /\ UNCHANGED download_progress
           ELSE IF f.state = "returned"
           THEN /\ threads' = [threads EXCEPT ![s] = [@ EXCEPT !.call = NoCall, !.pc = "paste", !.resp = f.result]]
                /\ UNCHANGED download_progress
           ELSE /\ threads' = [threads EXCEPT ![s] = Counted([@ EXCEPT !.call = f])]
                /\ UpdateProgress(s, <<"Retrying tile", f.attempt>>, None, None, FALSE, None)
    /\ UNCHANGED <<files, last, tile_call, remote, plan>>

\* app.py:123  one attempt of the fetch_tile call in progress
TaskFetch(s, outcome) ==
    /\ threads[s].pc = "fetch"
    /\ threads[s].call.state = "loop"
    /\ threads' =
         [threads EXCEPT ![s] =
            LET f == FetchAttempt(@.call, outcome)
            IN  IF f.state = "raised"
                THEN [@ EXCEPT !.call = NoCall, !.pc = "except", !.exc = f.exc]
                ELSE IF f.state = "returned"
                THEN [@ EXCEPT !.call = NoCall, !.pc = "paste", !.resp = f.result]
                ELSE [@ EXCEPT !.call = f]]
    /\ UNCHANGED <<download_progress, files, last, tile_call, remote, plan>>

\* The loop body with `continue` in place of the raise of app.py:128: a
\* tile without content is skipped.
TaskPasteSkip(s) ==
    /\ threads[s].pc = "paste"
    /\ LET t == threads[s]
           r == t.resp
           reg == Region(t.meta, t.row, t.col)
           c == NextCell(t.meta, t.row, t.col)
       IN  IF IsNone(r) \/ IsNone(Get(r).content)
           THEN /\ threads' = [threads EXCEPT ![s] = EnterCell(@, c[1], c[2])]
                /\ UNCHANGED download_progress
           ELSE IF ~Decodes(Get(r).content)
           THEN /\ threads' = [threads EXCEPT ![s].pc = "except", ![s].exc = Some(UnidentifiedImage)]
                /\ UNCHANGED download_progress
           ELSE /\ UpdateProgress(s, <<"Downloaded tile", t.tile_num + 1, TotalTiles(t.meta)>>,
                                  Some(TileProgress(t.tile_num + 1, TotalTiles(t.meta))),
                                  None, FALSE, None)
                /\ threads' =
                     [threads EXCEPT ![s] =
                        LET size == Get(r).content
                        IN  EnterCell(Counted([@ EXCEPT !.canvas = Append(@, <<reg[1], reg[2], size[1], size[2]>>),
                                                        !.tile_num = @ + 1]),
                                      c[1], c[2])]
    /\ UNCHANGED <<files, last, tile_call, remote, plan>>

\* app.py:124-132, and the loop headers for the next cell.  Image.open
\* (app.py:125) raises on bytes that are no image.
TaskPaste(s) ==
    /\ threads[s].pc = "paste"
    /\ LET t == threads[s]
           r == t.resp
           reg == Region(t.meta, t.row, t.col)
       IN  IF IsNone(r) \/ IsNone(Get(r).content)
           THEN /\ threads' = [threads EXCEPT ![s].pc = "except", ![s].exc = Some(TileFailed)]
                /\ UNCHANGED download_progress
           ELSE IF ~Decodes(Get(r).content)
           THEN /\ threads' = [threads EXCEPT ![s].pc = "except", ![s].exc = Some(UnidentifiedImage)]
                /\ UNCHANGED download_progress
           ELSE /\ UpdateProgress(s, <<"Downloaded tile", t.tile_num + 1, TotalTiles(t.meta)>>,
                                  Some(TileProgress(t.tile_num + 1, TotalTiles(t.meta))),
                                  None, FALSE, None)
                /\ threads' =
                     [threads EXCEPT ![s] =
                        LET size == Get(r).content
                            c == NextCell(t.meta, t.row, t.col)
                        IN  EnterCell(Counted([@ EXCEPT !.canvas = Append(@, <<reg[1], reg[2], size[1], size[2]>>),
                                                        !.tile_num = @ + 1]),
                                      c[1], c[2])]
    /\ UNCHANGED <<files, last, tile_call, remote, plan>>

\* app.py:134
TaskSaving(s) ==
    /\ threads[s].pc = "saving"
    /\ UpdateProgress(s, <<"Saving final image...">>, Some(Num(95)), None, FALSE, None)
    /\ threads' = [threads EXCEPT ![s] = Counted([@ EXCEPT !.pc = "save"])]
    /\ UNCHANGED <<files, last, tile_call, remote, plan>>

\* app.py:137  final_img.save(output_file): the file holds this canvas.  The
\* write is taken as one step and as succeeding.
TaskSave(s) ==
    /\ threads[s].pc = "save"
    /\ files' = SetItem(files, OutputFile(threads[s].image_id),
                        [writer |-> s, canvas |-> threads[s].canvas])
    /\ threads' = [threads EXCEPT ![s].pc = "complete"]
    /\ UNCHANGED <<download_progress, last, tile_call, remote, plan>>

\* The completion record without file_path=output_file.
TaskCompleteNoPath(s) ==
    /\ threads[s].pc = "complete"
    /\ UpdateProgress(s, <<"Image ready for download!">>, Some(Num(100)), None, TRUE, None)
    /\ threads' = [threads EXCEPT ![s] = Counted([@ EXCEPT !.pc = "done"])]
    /\ UNCHANGED <<files, last, tile_call, remote, plan>>

\* app.py:139
TaskComplete(s) ==
    /\ threads[s].pc = "complete"
    /\ UpdateProgress(s, <<"Image ready for download!">>, Some(Num(100)), None, TRUE,
                      Some(OutputFile(threads[s].image_id)))
    /\ threads' = [threads EXCEPT ![s] = Counted([@ EXCEPT !.pc = "done"])]
    /\ UNCHANGED <<files, last, tile_call, remote, plan>>

\* An except clause that starts the pipeline over, recording nothing.
TaskExceptRetry(s) ==
    /\ threads[s].pc = "except"
    /\ threads' = [threads EXCEPT ![s] = [NewThread(@.image_id) EXCEPT !.pc = "metadata", !.updates = 1,
                                                   !.returned = threads[s].returned]]
    /\ UNCHANGED <<download_progress, files, last, tile_call, remote, plan>>

\* app.py:141-146
TaskExcept(s) ==
    /\ threads[s].pc = "except"
    /\ LET e == Get(threads[s].exc)
       IN  IF IsRequestException(e)
           THEN UpdateProgress(s, <<"Network error occurred">>, None,
                               Some(<<"Failed to download image: ", e.detail>>), FALSE, None)
           ELSE UpdateProgress(s, <<"An error occurred">>, None,
                               Some(<<"Unexpected error: ", e.detail>>), FALSE, None)
    /\ threads' = [threads EXCEPT ![s] = Counted([@ EXCEPT !.pc = "done"])]
    /\ UNCHANGED <<files, last, tile_call, remote, plan>>

----------------------------------------------------------------------------
(* The request handlers (app.py:153-205).                                  *)

Reply(op, arg, status, body) == [op |-> op, arg |-> arg, status |-> status, body |-> body]

\* uuid.uuid4(): a token no earlier session has (the next unused number).
NewSessionId == Cardinality(DOMAIN threads) + 1

\* app.py:154-171  start_download with the posted image_id `raw`, up to
\* thread.start(): a refusal is returned at once; otherwise the thread is
\* started, and the reply follows in StartReturn, the new thread and the
\* other handlers running in between.  At most `limit` sessions are started;
\* the refusals start none and are not limited.
StartDownload(raw, limit) ==
    /\ LET image_id == Strip(raw)
       IN  IF IntakeEmpty(image_id)
           THEN /\ last' = Reply("start_download", raw, 400, <<"Please enter an IIIF image ID">>)
                /\ UNCHANGED threads
           ELSE IF IntakeInvalid(image_id)
           THEN /\ last' = Reply("start_download", raw, 400, <<"Invalid image ID format">>)
                /\ UNCHANGED threads
           ELSE /\ Cardinality(DOMAIN threads) < limit
                /\ threads' = SetItem(threads, NewSessionId, NewThread(image_id))
                /\ UNCHANGED last
    /\ UNCHANGED <<download_progress, files, tile_call, remote, plan>>

\* app.py:173  the start_download call that started session s returns.
StartReturn(s) ==
    /\ ~threads[s].returned
    /\ threads' = [threads EXCEPT ![s].returned = TRUE]
    /\ last' = Reply("start_download", threads[s].image_id, 200, <<s>>)
    /\ UNCHANGED <<download_progress, files, tile_call, remote, plan>>

\* app.py:176-181  what get_progress returns in the current state
ProgressReply(session_id) ==
    IF session_id \notin DOMAIN download_progress
    THEN Reply("get_progress", session_id, 404, <<"Session not found">>)
    ELSE Reply("get_progress", session_id, 200, <<download_progress[session_id]>>)

GetProgress(session_id) ==
    /\ last' = ProgressReply(session_id)
    /\ UNCHANGED <<download_progress, threads, files, tile_call, remote, plan>>

\* download_file without the `completed` check of app.py:191-192.
DownloadReplyUngated(session_id) ==
    IF session_id \notin DOMAIN download_progress
    THEN Reply("download_file", session_id, 404, <<"Session not found">>)
    ELSE LET progress_data == download_progress[session_id]
         IN  IF IsNone(progress_data.file_path)
                \/ Get(progress_data.file_path) \notin DOMAIN files
             THEN Reply("download_file", session_id, 404, <<"File not found">>)
             ELSE Reply("download_file", session_id, 200,
                        <<files[Get(progress_data.file_path)]>>)

\* app.py:184-205  what download_file returns in the current state
DownloadReply(session_id) ==
    IF session_id \notin DOMAIN download_progress
    THEN Reply("download_file", session_id, 404, <<"Session not found">>)
    ELSE LET progress_data == download_progress[session_id]
         IN  IF ~progress_data.completed
             THEN Reply("download_file", session_id, 400, <<"Download not completed yet">>)
             ELSE IF IsNone(progress_data.file_path)
                     \/ Get(progress_data.file_path) \notin DOMAIN files
             THEN Reply("download_file", session_id, 404, <<"File not found">>)
             ELSE Reply("download_file", session_id, 200,
                        <<files[Get(progress_data.file_path)]>>)

DownloadFile(session_id) ==
    /\ last' = DownloadReply(session_id)
    /\ UNCHANGED <<download_progress, threads, files, tile_call, remote, plan>>

----------------------------------------------------------------------------
(* The specifications.                                                     *)

NoReply == Reply("none", 0, 0, <<>>)
NoPlan == [meta |-> NoMeta, row |-> 0, col |-> 0, rects |-> <<>>, state |-> "none"]

\* The image identifiers posted to start_download.
RawIds ==
    { <<>>, <<" ">>, <<"a", "1">>, <<" ", "a", "1", " ">>, <<"a", "_", "1">>,
      <<"_">>, <<"a", "/", "1">>, <<"\\", "a">>, <<"a", ".">> }

\* The identifiers posted under concurrent sessions: one that is accepted
\* everywhere, one that intake accepts and the task refuses, one refused.
ConcIds == { <<"a", "1">>, <<"a", "_", "1">>, <<"a", "/", "1">> }

\* The session ids a poller asks about: those started, and one never created.
PollIds(limit) == 1..(limit + 1)

Dims(n) == {Meta(w, h, tw, th) : w \in 1..n, h \in 1..n, tw \in 1..n, th \in 1..n}

\* The descriptors the remote serves.
ConcMetas == {Meta(1, 1, 1, 1)}
SeqMetas == Dims(MaxDim)

\* What the metadata request can do under concurrent sessions: the
\* descriptor, and one failure for each except clause of the task (a failure
\* status for app.py:141, a body that lacks a key for app.py:144).  SeqInfo
\* and TileOutcomes have every outcome, for one session.
ConcInfo ==
    {Descriptor(m) : m \in ConcMetas} \cup {Response(404, <<>>), Body([tiles |-> <<>>])}
SeqInfo == InfoOutcomes(SeqMetas)

\* After construction: no session, no record, no file.
Init ==
    /\ download_progress = <<>>
    /\ threads = <<>>
    /\ files = <<>>
    /\ last = NoReply
    /\ tile_call = NoCall
    /\ remote = <<>>
    /\ plan = NoPlan

\* One step of thread s; the remote answers the metadata request with one of
\* `outcomes`, and a tile request with one of TileOutcomes, or of ConcTiles
\* when every answer is the planned tile or a failure status (as_planned).
TaskStep(s, outcomes, as_planned) ==
    \/ TaskBegin(s)
    \/ TaskValidate(s)
    \/ \E o \in outcomes : TaskMetadata(s, o)
    \/ TaskPlan(s)
    \/ \E o \in (IF as_planned
                 THEN ConcTiles(threads[s].call.url[3], threads[s].call.url[4])
                 ELSE TileOutcomes(threads[s].call.url[3], threads[s].call.url[4])) :
          TaskFetch(s, o)
    \/ TaskPaste(s)
    \/ TaskSaving(s)
    \/ TaskSave(s)
    \/ TaskComplete(s)
    \/ TaskExcept(s)

\* Sessions running concurrently, with pollers.
Next ==
    \/ \E raw \in ConcIds : StartDownload(raw, MaxSessions)
    \/ \E s \in DOMAIN threads : StartReturn(s)
    \/ \E s \in DOMAIN threads : TaskStep(s, ConcInfo, TRUE)
    \/ \E p \in PollIds(MaxSessions) : GetProgress(p)
    \/ \E p \in PollIds(MaxSessions) : DownloadFile(p)

Spec == Init /\ [][Next]_vars

\* One session, over every descriptor with dimensions up to MaxDim.
NextSeq ==
    \/ \E raw \in RawIds : StartDownload(raw, 1)
    \/ \E s \in DOMAIN threads : StartReturn(s)
    \/ \E s \in DOMAIN threads : TaskStep(s, SeqInfo, FALSE)
    \/ \E p \in PollIds(1) : GetProgress(p)
    \/ \E p \in PollIds(1) : DownloadFile(p)

SpecSeq == Init /\ [][NextSeq]_vars

----------------------------------------------------------------------------
(* fetch_tile called on its own, against a scripted remote.                *)

\* What the scripted remote can do at one attempt.
StubOutcomes ==
    {Response(200, <<1, 1>>), Response(204, <<>>), Response(404, <<>>),
     Response(503, <<>>), TransportError}

StubUrl == <<0, 0, 1, 1>>

\* A call fetch_tile(url, retries) about to be made, and the remote's script:
\* its outcome at each attempt.
InitFetch ==
    /\ download_progress = <<>>
    /\ threads = <<>>
    /\ files = <<>>
    /\ last = NoReply
    /\ plan = NoPlan
    /\ remote \in [1..MaxRetries -> StubOutcomes]
    /\ \E r \in 0..MaxRetries : tile_call = [NoCall EXCEPT !.retries = r, !.state = "called"]

\* app.py:40-43  the call is entered
StubEnter ==
    /\ tile_call.state = "called"
    /\ tile_call' = FetchEnter(StubUrl, tile_call.retries)
    /\ UNCHANGED <<download_progress, threads, files, last, remote, plan>>

\* app.py:43-60  one attempt, the remote doing what its script says
StubAttempt ==
    /\ tile_call.state = "loop"
    /\ tile_call' = FetchAttempt(tile_call, remote[tile_call.attempt + 1])
    /\ UNCHANGED <<download_progress, threads, files, last, remote, plan>>

NextFetch == StubEnter \/ StubAttempt

SpecFetch == InitFetch /\ [][NextFetch]_vars

----------------------------------------------------------------------------
(* The grid loops run on their own, over every descriptor up to MaxGridDim.*)

InitGrid ==
    /\ download_progress = <<>>
    /\ threads = <<>>
    /\ files = <<>>
    /\ last = NoReply
    /\ tile_call = NoCall
    /\ remote = <<>>
    /\ \E m \in Dims(MaxGridDim) :
          plan = [meta |-> m, row |-> 0, col |-> 0, rects |-> <<>>, state |-> "loop"]

\* app.py:113-119  one pass of the loop body: the region of (row, col)
GridStep ==
    /\ plan.state = "loop"
    /\ plan.row < Rows(plan.meta)
    /\ LET c == NextCell(plan.meta, plan.row, plan.col)
       IN  plan' = [plan EXCEPT !.rects = Append(@, Region(plan.meta, plan.row, plan.col)),
                                !.row = c[1], !.col = c[2]]
    /\ UNCHANGED <<download_progress, threads, files, last, tile_call, remote>>

\* app.py:113  range(rows) is exhausted
GridEnd ==
    /\ plan.state = "loop"
    /\ plan.row >= Rows(plan.meta)
    /\ plan' = [plan EXCEPT !.state = "done"]
    /\ UNCHANGED <<download_progress, threads, files, last, tile_call, remote>>

NextGrid == GridStep \/ GridEnd

SpecGrid == InitGrid /\ [][NextGrid]_vars

----------------------------------------------------------------------------
(* The claims about fetch_tile, under SpecFetch.                           *)

Finished(f) == f.state \in {"returned", "raised"}
IsSuccess(o) == o.kind = "response" /\ o.status_code = 200

\* The remote gives no success at any of the first n attempts.
NoSuccessIn(n) == \A i \in 1..n : ~IsSuccess(remote[i])

\* C1: for every retries >= 1, a call in which no attempt obtains a 200
\* response ends by raising; it never returns normally (never returns None).
C1_NeverSilentlyDrops ==
    (/\ Finished(tile_call)
     /\ tile_call.retries >= 1
     /\ NoSuccessIn(tile_call.attempt))
    => tile_call.state = "raised"

\* C2: the attempts never exceed retries; the call returns at the first
\* success, and returns that response; a remote that fails at every one of
\* the `retries` attempts gets exactly `retries` attempts and then an error
\* (so fail, fail, success with retries = 3 is 3 attempts and the body).
C2_AttemptCount ==
    /\ tile_call.attempt <= tile_call.retries
    /\ tile_call.state \in {"loop", "returned", "raised"} /\ tile_call.attempt > 0
         => NoSuccessIn(tile_call.attempt - 1)
    /\ tile_call.state = "loop" => NoSuccessIn(tile_call.attempt)
    /\ (Finished(tile_call) /\ tile_call.attempt > 0 /\ IsSuccess(remote[tile_call.attempt]))
         => (tile_call.state = "returned" /\ tile_call.result = Some(remote[tile_call.attempt]))
    /\ (Finished(tile_call) /\ tile_call.retries >= 1 /\ NoSuccessIn(tile_call.attempt))
         => (tile_call.attempt = tile_call.retries /\ tile_call.state = "raised")

----------------------------------------------------------------------------
(* The claims about the sessions.                                          *)

Terminal(r) == r.completed \/ ~IsNone(r.error)

\* The tiles thread t pasted whose decoded size is not the planned size.
Mismatched(t) ==
    {i \in 1..Len(t.canvas) :
        <<t.canvas[i][3], t.canvas[i][4]>> # <<t.requested[i][3], t.requested[i][4]>>}

\* C3: a session that was served a tile whose decoded size is not the
\* (width, height) of its TileSpec never reaches completed=true.
C3_SizeMismatchIsFatal ==
    \A s \in DOMAIN threads :
        Mismatched(threads[s]) # {}
            => ~(s \in DOMAIN download_progress /\ download_progress[s].completed)

\* C4: the identifier rule is the same at intake and in the background task:
\* no started session ends with the 'Invalid image ID' error, and an
\* identifier start_download rejects is one the task rejects.
C4_SameValidation ==
    /\ \A s \in DOMAIN download_progress :
           download_progress[s].message # <<"Invalid image ID">>
    /\ (last.op = "start_download" /\ last.status = 400) => TaskInvalid(Strip(last.arg))
    /\ \A s \in DOMAIN threads : ~IntakeRejects(threads[s].image_id)

\* C5: the artifact retrievable for a completed session is the file that
\* session wrote; no other session's pipeline writes it.
C5_ArtifactOwned ==
    \A s \in DOMAIN download_progress :
        download_progress[s].completed
            => files[Get(download_progress[s].file_path)].writer = s

\* C6: once start_download has returned a session id, get_progress of that
\* id returns a record and never NotFound.  (The latest reply being that of
\* a get_progress, every start_download that has returned did so before it.)
C6_RecordFromStart ==
    (/\ last.op = "get_progress"
     /\ last.arg \in DOMAIN threads
     /\ threads[last.arg].returned) => last.status # 404

\* C7: once a session's record is terminal (completed=true, or error
\* present), no update_progress call is made for that session id: the record
\* stays the same in every later state.
C7_TerminalIsFinal ==
    [][\A s \in DOMAIN download_progress :
          Terminal(download_progress[s])
              => /\ download_progress'[s] = download_progress[s]
                 /\ threads'[s].updates = threads[s].updates]_vars

\* A finished session's terminal record beside a session still running.
C7_Witness ==
    \E s, t \in DOMAIN download_progress :
        /\ Terminal(download_progress[s]) /\ threads[s].pc = "done"
        /\ ~Terminal(download_progress[t]) /\ threads[t].pc = "fetch"

\* C8: every stored record has: completed implies file_path present, no
\* error and progress 100; error implies not completed and no file_path;
\* progress, when present, lies in [0, 100].
C8_RecordShape ==
    \A s \in DOMAIN download_progress :
        LET r == download_progress[s]
        IN  /\ r.completed => (~IsNone(r.file_path) /\ IsNone(r.error)
                                 /\ r.progress = Some(Num(100)))
            /\ ~IsNone(r.error) => (~r.completed /\ IsNone(r.file_path))
            /\ ~IsNone(r.progress) =>
                   (RatLeq(Num(0), Get(r.progress)) /\ RatLeq(Get(r.progress), Num(100)))

\* A completed record: the session went through every checkpoint.
C8_Witness ==
    \E s \in DOMAIN download_progress :
        download_progress[s].completed /\ threads[s].tile_num = 4

\* The progress value the claim gives for a session's u-th write, the
\* session having n tiles: 0, 5, 5 + (k/n)*85 for k = 1..n, 95, 100.
ClaimedProgress(u, n) ==
    CASE u = 1 -> Num(0)
      [] u = 2 -> Num(5)
      [] u > 2 /\ u <= n + 2 -> Rat(5 * n + 85 * (u - 2), n)
      [] u = n + 3 -> Num(95)
      [] OTHER -> Num(100)

\* C9: the progress values written to a session's record are 0, then 5,
\* then 5 + (k/N)*85 after the k-th tile, then 95, then 100; they never
\* decrease from one write to the next, and the value written with
\* completed=true is 100.
C9_ProgressMonotone ==
    [][\A s \in DOMAIN download_progress' :
          LET new == download_progress'[s]
          IN  /\ s \notin DOMAIN download_progress => new.progress = Some(Num(0))
              /\ (threads'[s].updates # threads[s].updates /\ ~IsNone(new.progress))
                     => new.progress =
                          Some(ClaimedProgress(threads'[s].updates,
                                               IF threads'[s].updates <= 2 THEN 0
                                               ELSE TotalTiles(threads'[s].meta)))
              /\ (/\ s \in DOMAIN download_progress
                  /\ ~IsNone(download_progress[s].progress)
                  /\ ~IsNone(new.progress))
                     => RatLeq(Get(download_progress[s].progress), Get(new.progress))
              /\ new.completed => new.progress = Some(Num(100))]_vars

\* A session of four tiles that went from 0 to 100.
C9_Witness ==
    \E s \in DOMAIN download_progress :
        /\ download_progress[s].completed
        /\ download_progress[s].progress = Some(Num(100))
        /\ TotalTiles(threads[s].meta) = 4
        /\ threads[s].updates = 8

----------------------------------------------------------------------------
(* The claim about the grid loops, under SpecGrid.                         *)

\* ceil(a / b) as the least n with n * b >= a.
Ceil(a, b) == CHOOSE n \in 0..a : n * b >= a /\ (n - 1) * b < a

\* The pixels of rectangle <<x, y, w, h>>.
Pixels(r) == {<<px, py>> : px \in r[1]..(r[1] + r[3] - 1), py \in r[2]..(r[2] + r[4] - 1)}

\* C10: the rectangles the loops enumerate are pairwise disjoint, each is at
\* least 1 x 1 and at most the nominal tile; only the last column and row
\* are smaller than nominal; and, the loops over, their union is the whole
\* image and their number is ceil(W/tw) * ceil(H/th).  With W = 1000 and
\* tw = 384 the widths are 384, 384, 232.
C10_GridCoverage ==
    LET m == plan.meta
        R == plan.rects
    IN  /\ \A i \in 1..Len(R) :
              /\ R[i][3] >= 1 /\ R[i][4] >= 1
              /\ R[i][3] <= m.tile_width /\ R[i][4] <= m.tile_height
              /\ R[i][3] < m.tile_width => R[i][1] + R[i][3] = m.width
              /\ R[i][4] < m.tile_height => R[i][2] + R[i][4] = m.height
        /\ \A i, j \in 1..Len(R) : i # j => Pixels(R[i]) \cap Pixels(R[j]) = {}
        /\ plan.state = "done" =>
              /\ UNION {Pixels(R[i]) : i \in 1..Len(R)}
                     = (0..(m.width - 1)) \X (0..(m.height - 1))
              /\ Len(R) = Ceil(m.width, m.tile_width) * Ceil(m.height, m.tile_height)
        /\ Cols(Meta(1000, 1, 384, 1)) = 3
        /\ [c \in 0..2 |-> Region(Meta(1000, 1, 384, 1), 0, c)[3]] = [c \in 0..2 |-> IF c < 2 THEN 384 ELSE 232]

\* The loops are over for a 3 x 3 image with 2 x 2 tiles: four tiles, the
\* last column and row clipped.
C10_Witness ==
    /\ plan.state = "done"
    /\ plan.meta = Meta(3, 3, 2, 2)
    /\ Len(plan.rects) = 4
    /\ plan.rects[4] = <<2, 2, 1, 1>>

----------------------------------------------------------------------------
(* The claims about failure, retrieval and validation.                     *)

\* The pipeline of thread t has failed: an exception is on its way to the
\* except clauses (the metadata request failed, or fetch_tile raised, or the
\* tile came back without content), or fetch_tile has used up its attempts
\* and returned no response.
Failed(t) == ~IsNone(t.exc) \/ (t.pc = "paste" /\ IsNone(t.resp))

\* C11: once the metadata request has failed or the fetch of a tile has
\* used up its attempts, the session issues no further request, never saves
\* its canvas, and its task ends (no exception escaping) with a terminal
\* error record: completed=false, no artifact handle.
C11_FailureAborts ==
    [][\A s \in DOMAIN threads :
          Failed(threads[s]) =>
              /\ threads'[s].requested = threads[s].requested
              /\ threads'[s].call = threads[s].call
              /\ threads'[s].info_requests = threads[s].info_requests
              /\ Failed(threads'[s])
              /\ \/ [threads'[s] EXCEPT !.returned = threads[s].returned] = threads[s]
                 \/ threads'[s].pc \in {"except", "done"}
              /\ \A f \in DOMAIN files' : files'[f].writer # s
              /\ threads'[s].pc = "done" =>
                    LET r == download_progress'[s]
                    IN  ~IsNone(r.error) /\ ~r.completed /\ IsNone(r.file_path)]_vars

\* The third tile of a 2 x 2 grid failed: two tiles pasted, three requested,
\* the task over with an error record and no file.
C11_Witness ==
    \E s \in DOMAIN threads :
        /\ threads[s].pc = "done" /\ Failed(threads[s])
        /\ threads[s].meta = Meta(2, 2, 1, 1)
        /\ threads[s].tile_num = 2 /\ Len(threads[s].requested) = 3
        /\ ~IsNone(download_progress[s].error)
        /\ files = <<>>

\* C12: download_file answers by the session's current record: NotFound
\* when there is none, 'not completed' when completed is false (in progress
\* or failed), and a file only when the record has completed=true and an
\* artifact handle; get_progress and download_file answer NotFound for a
\* session id that was never created.
C12_RetrievalGated ==
    /\ \A p \in PollIds(Cardinality(DOMAIN threads)) :
          LET d == DownloadReply(p)
          IN  /\ p \notin DOMAIN download_progress
                    => (d.status = 404 /\ d.body = <<"Session not found">>)
              /\ (p \in DOMAIN download_progress /\ ~download_progress[p].completed)
                    => (d.status = 400 /\ d.body = <<"Download not completed yet">>)
              /\ d.status = 200
                    => /\ p \in DOMAIN download_progress
                       /\ download_progress[p].completed
                       /\ ~IsNone(download_progress[p].file_path)
              /\ p \notin DOMAIN threads
                    => (ProgressReply(p).status = 404 /\ d.status = 404)
    /\ (last.op = "download_file" /\ last.status = 200)
          => /\ download_progress[last.arg].completed
             /\ ~IsNone(download_progress[last.arg].file_path)
    /\ (last.op \in {"download_file", "get_progress"} /\ last.arg \notin DOMAIN threads)
          => last.status = 404

\* A file was served for one session while the other, failed or in
\* progress, is refused.
C12_Witness ==
    /\ last.op = "download_file" /\ last.status = 200
    /\ \E p \in DOMAIN download_progress :
          ~download_progress[p].completed /\ DownloadReply(p).status = 400

----------------------------------------------------------------------------
(* Intake and the background task each given every identifier.             *)

\* download_and_stitch_image(image_id, session_id) called with an identifier
\* as it is (app.py:73), no start_download before it.
CallTask(image_id, limit) ==
    /\ Cardinality(DOMAIN threads) < limit
    /\ threads' = SetItem(threads, NewSessionId, [NewThread(image_id) EXCEPT !.returned = TRUE])
    /\ UNCHANGED <<download_progress, files, last, tile_call, remote, plan>>

NextIntake ==
    \/ \E raw \in RawIds : StartDownload(raw, 1)
    \/ \E s \in DOMAIN threads : StartReturn(s)
    \/ \E raw \in RawIds : CallTask(raw, 1)
    \/ \E s \in DOMAIN threads : TaskStep(s, ConcInfo, TRUE)
    \/ \E p \in PollIds(1) : GetProgress(p)
    \/ \E p \in PollIds(1) : DownloadFile(p)

SpecIntake == Init /\ [][NextIntake]_vars

\* The identifiers the claim names: empty, or with '/' or '\', or with a
\* character that is not alphanumeric, '_' or '-'.
Malformed(id) ==
    \/ Len(id) = 0
    \/ \E i \in 1..Len(id) : id[i] \notin (AlnumChars \cup {"_", "-"})

\* C13: start_download answers a malformed identifier (the image_id it
\* validates, app.py:157) with a validation error, creating no record and
\* no thread, so no request is sent; and download_and_stitch_image run with
\* a malformed identifier sends no request and records an error.
C13_ValidationFirst ==
    [][/\ (last'.op = "start_download" /\ last' # last /\ Malformed(Strip(last'.arg)))
            => /\ last'.status = 400
               /\ threads' = threads
               /\ download_progress' = download_progress
       /\ \A s \in DOMAIN threads' :
             Malformed(threads'[s].image_id)
                => /\ threads'[s].info_requests = 0
                   /\ threads'[s].requested = <<>>
                   /\ threads'[s].call = NoCall
                   /\ threads'[s].pc \in {"begin", "validate", "done"}
                   /\ threads'[s].pc = "done"
                         => ~IsNone(download_progress'[s].error)]_vars

\* The task was run with 'a/1' and is over, its error recorded and nothing
\* requested, and start_download has just refused an identifier.
C13_Witness ==
    /\ \E s \in DOMAIN threads :
          /\ threads[s].image_id = <<"a", "/", "1">>
          /\ threads[s].pc = "done"
          /\ threads[s].info_requests = 0
          /\ ~IsNone(download_progress[s].error)
    /\ last.op = "start_download" /\ last.status = 400 /\ last.arg = <<"a", ".">>

----------------------------------------------------------------------------
(* Sessions under a fair scheduler.                                        *)

\* The descriptors the remote serves here: a row of up to MaxDim tiles.
LiveMetas == {Meta(w, 1, 1, 1) : w \in 1..MaxDim}

\* The steps of the thread of session s, once it is started.
ThreadRuns(s) == s \in DOMAIN threads /\ TaskStep(s, InfoOutcomes(LiveMetas), FALSE)

NextLive ==
    \/ \E raw \in RawIds : StartDownload(raw, 1)
    \/ \E s \in DOMAIN threads : StartReturn(s)
    \/ ThreadRuns(1)
    \/ \E p \in PollIds(1) : GetProgress(p)
    \/ \E p \in PollIds(1) : DownloadFile(p)

\* The started thread is scheduled again and again, and every request it
\* sends ends (a response, or an exception at the timeout).  A thread waits
\* for no other thread, so one session is followed.
SpecLive == Init /\ [][NextLive]_vars /\ WF_vars(ThreadRuns(1))

\* C14: every started session ends: its task writes a terminal record
\* (completed=true or error present) for its session id.
C14_SessionsTerminate ==
    (1 \in DOMAIN threads)
        ~> (1 \in DOMAIN download_progress /\ Terminal(download_progress[1]))

\* A session over after its second tile used up its retries on errors.
C14_Witness ==
    /\ 1 \in DOMAIN threads
    /\ threads[1].pc = "done" /\ ~IsNone(download_progress[1].error)
    /\ threads[1].exc = Some(HTTPError(404))
    /\ Len(threads[1].requested) = 2

----------------------------------------------------------------------------
(* The tracker's writes.                                                   *)

\* The records one call of update_progress in app.py can write: a progress
\* report, an error report (progress left out), the completion report.
Snapshot(r) ==
    \/ ~IsNone(r.progress) /\ IsNone(r.error) /\ ~r.completed /\ IsNone(r.file_path)
    \/ IsNone(r.progress) /\ ~IsNone(r.error) /\ ~r.completed /\ IsNone(r.file_path)
    \/ r.progress = Some(Num(100)) /\ IsNone(r.error) /\ r.completed /\ ~IsNone(r.file_path)

\* C15: update_progress replaces the whole record of its session: the new
\* record holds the fields of that one call, every field left out at its
\* default whatever the record held before; the records of all other
\* sessions stay as they were, no record is ever removed, and the body
\* get_progress returns is the record of a single update.
C15_WholeRecordReplaced ==
    [][/\ DOMAIN download_progress \subseteq DOMAIN download_progress'
       /\ \A s \in DOMAIN download_progress' :
            \/ s \in DOMAIN download_progress /\ download_progress'[s] = download_progress[s]
            \/ /\ s \in DOMAIN threads
               /\ threads'[s].updates = threads[s].updates + 1
               /\ Snapshot(download_progress'[s])
               /\ \A t \in DOMAIN download_progress' \ {s} :
                    t \in DOMAIN download_progress /\ download_progress'[t] = download_progress[t]
       /\ (last' # last /\ last'.op = "get_progress" /\ last'.status = 200)
            => /\ last'.body = <<download_progress[last'.arg]>>
               /\ Snapshot(download_progress[last'.arg])]_vars

\* An error record written over a record that had progress 5, read back
\* by get_progress, while another session's record is a progress report.
C15_Witness ==
    \E s, t \in DOMAIN download_progress :
        /\ s # t
        /\ threads[s].updates = 3
        /\ ~IsNone(download_progress[s].error)
        /\ IsNone(download_progress[s].progress)
        /\ download_progress[t].progress = Some(Num(5))
        /\ last = Reply("get_progress", s, 200, <<download_progress[s]>>)

----------------------------------------------------------------------------
(* The error fetch_tile ends with, and its delays, under SpecFetch.        *)

\* The call used up its attempts, the last of them without a success.
Exhausted(f) ==
    /\ Finished(f)
    /\ f.retries >= 1
    /\ f.attempt = f.retries
    /\ ~IsSuccess(remote[f.attempt])

\* C16: with the attempts used up, a final attempt that got an unsuccessful
\* response ends in an error carrying that response's status; a final
\* attempt that raised a transport exception ends in that exception, also
\* when an earlier attempt got a response; no attempt follows it.
C16_LastFailureSurfaced ==
    /\ tile_call.attempt <= tile_call.retries
    /\ Exhausted(tile_call) =>
         LET o == remote[tile_call.attempt]
         IN  /\ tile_call.state = "raised"
             /\ o.kind = "response" => tile_call.exc = Some(HTTPError(o.status_code))
             /\ o.kind = "exception" => tile_call.exc = Some(ConnectionFailed)

----------------------------------------------------------------------------
(* The order of the pipeline's steps, under SpecSeq.                       *)

\* The cell of the i-th tile in row-major order (i from 1).
CellOf(m, i) == <<(i - 1) \div Cols(m), (i - 1) % Cols(m)>>

\* Thread t has fetched and pasted every planned tile, each at its place.
AllTilesPasted(t) ==
    /\ t.tile_num = TotalTiles(t.meta)
    /\ Len(t.canvas) = TotalTiles(t.meta)
    /\ Len(t.requested) = TotalTiles(t.meta)
    /\ \A i \in 1..Len(t.canvas) :
         LET reg == Region(t.meta, CellOf(t.meta, i)[1], CellOf(t.meta, i)[2])
         IN  t.canvas[i][1] = reg[1] /\ t.canvas[i][2] = reg[2]

\* C17: a record with completed=true is there only after all rows*cols
\* tiles were fetched and pasted, the 'saving' record at 95 was written and
\* the canvas was saved: completed implies tilesDone = total, and the step
\* that writes the record starts from the 'saving' record with the file
\* already holding the whole canvas.
C17_CompletedAfterAll ==
    /\ [](\A s \in DOMAIN download_progress :
            download_progress[s].completed =>
                /\ AllTilesPasted(threads[s])
                /\ threads[s].pc = "done"
                /\ threads[s].updates = TotalTiles(threads[s].meta) + 4)
    /\ [][\A s \in DOMAIN download_progress' :
            (download_progress'[s].completed
             /\ ~(s \in DOMAIN download_progress /\ download_progress[s].completed))
            => /\ s \in DOMAIN download_progress
               /\ download_progress[s].message = <<"Saving final image...">>
               /\ download_progress[s].progress = Some(Num(95))
               /\ AllTilesPasted(threads[s])
               /\ OutputFile(threads[s].image_id) \in DOMAIN files
               /\ files[OutputFile(threads[s].image_id)] =
                    [writer |-> s, canvas |-> threads[s].canvas]]_vars

\* A session completed over a grid of 2 x 2 tiles.
C17_Witness ==
    \E s \in DOMAIN download_progress :
        /\ download_progress[s].completed
        /\ threads[s].meta = Meta(2, 2, 1, 1)
        /\ threads[s].tile_num = 4
        /\ Len(threads[s].canvas) = 4

\* C18: within a session the tiles are requested in row-major order (the
\* i-th request is for the i-th cell), no tile is requested twice by the
\* pipeline, and tile i is pasted before tile i+1 is requested (the requests
\* are never more than one ahead of the canvas, and the canvas holds the
\* tiles at the places requested, in that order).
C18_RowMajorOneAtATime ==
    \A s \in DOMAIN threads :
        LET t == threads[s]
        IN  /\ \A i \in 1..Len(t.requested) :
                 t.requested[i] = Region(t.meta, CellOf(t.meta, i)[1], CellOf(t.meta, i)[2])
            /\ \A i, j \in 1..Len(t.requested) : t.requested[i] = t.requested[j] => i = j
            /\ Len(t.canvas) <= Len(t.requested)
            /\ Len(t.requested) <= Len(t.canvas) + 1
            /\ t.pc \in {"fetch", "paste"} => Len(t.requested) = Len(t.canvas) + 1
            /\ t.tile_num = Len(t.canvas)
            /\ \A i \in 1..Len(t.canvas) :
                 t.canvas[i][1] = t.requested[i][1] /\ t.canvas[i][2] = t.requested[i][2]

\* The fourth tile of a 2 x 2 grid is being fetched, three tiles pasted.
C18_Witness ==
    \E s \in DOMAIN threads :
        /\ threads[s].pc = "fetch"
        /\ threads[s].meta = Meta(2, 2, 1, 1)
        /\ Len(threads[s].requested) = 4
        /\ Len(threads[s].canvas) = 3
        /\ threads[s].row = 1 /\ threads[s].col = 1

\* The step writes the record of session s.
RecordChanged(s) == download_progress'[s] # download_progress[s]

\* The record written is the progress report of the tile fetch_tile returned.
TileReported(s) ==
    LET t == threads[s]
    IN  /\ t.pc = "paste"
        /\ ~IsNone(t.resp)
        /\ Get(t.resp).status_code = 200
        /\ Decodes(Get(t.resp).content)
        /\ download_progress'[s] =
             ProgressRecord(<<"Downloaded tile", t.tile_num + 1, TotalTiles(t.meta)>>,
                            Some(TileProgress(t.tile_num + 1, TotalTiles(t.meta))),
                            None, FALSE, None)

\* The record written is the terminal error record of an except clause.
ErrorReported(s) ==
    /\ threads[s].pc = "except"
    /\ ~IsNone(download_progress'[s].error)
    /\ threads'[s].pc = "done"

\* The step of thread s is the tile pipeline failing: from the call of
\* fetch_tile or from the check of what it returned to the except clauses.
TileFails(s) == threads[s].pc \in {"fetch", "paste"} /\ threads'[s].pc = "except"

\* The failing step ends a call that used up its attempts: the last attempt
\* raises, or the call had returned None after the last attempt.
BudgetExhausted(s) ==
    \/ threads[s].pc = "fetch" /\ threads[s].call.attempt + 1 = threads[s].call.retries
    \/ threads[s].pc = "paste" /\ IsNone(threads[s].resp)

\* The failing step finds that the 200 response fetch_tile returned cannot
\* be used: it has no content, or its content is no image.
UnusableTile(s) ==
    /\ threads[s].pc = "paste"
    /\ ~IsNone(threads[s].resp)
    /\ Get(threads[s].resp).status_code = 200
    /\ IsNone(Get(threads[s].resp).content) \/ ~Decodes(Get(threads[s].resp).content)

\* C19 as stated: while fetch_tile is retrying the record is left unchanged,
\* and in the download phase the record changes only when the tile succeeds
\* (progress report) or the attempt budget is exhausted (terminal error
\* record): the tile pipeline fails only with the budget exhausted.
C19_OnlyWhenExhausted ==
    [][\A s \in DOMAIN threads :
         /\ threads[s].pc = "fetch" =>
              /\ ~RecordChanged(s)
              /\ threads'[s].updates = threads[s].updates
         /\ (threads[s].pc \in {"fetch", "paste", "except"} /\ RecordChanged(s)) =>
              (TileReported(s) \/ ErrorReported(s))
         /\ TileFails(s) => BudgetExhausted(s)]_vars

\* C19, amended: no step of a fetch_tile call in progress changes the record
\* of its session, so retries do not show in it; in the download phase the
\* record changes only once the call is over, to the progress report of the
\* tile it returned or to a terminal error record, and the pipeline fails
\* only with the attempt budget exhausted or on a returned 200 response
\* that cannot be used (no content, or content that is no image).
C19_RetriesInvisible ==
    [][\A s \in DOMAIN threads :
         /\ threads[s].pc = "fetch" =>
              /\ ~RecordChanged(s)
              /\ threads'[s].updates = threads[s].updates
         /\ (threads[s].pc \in {"fetch", "paste", "except"} /\ RecordChanged(s)) =>
              (TileReported(s) \/ ErrorReported(s))
         /\ TileFails(s) => (BudgetExhausted(s) \/ UnusableTile(s))]_vars

\* The second tile of two is at its third attempt; the record is still the
\* progress report of the first tile.
C19_Witness ==
    \E s \in DOMAIN threads :
        /\ threads[s].pc = "fetch"
        /\ threads[s].call.attempt = 2
        /\ threads[s].call.state = "loop"
        /\ threads[s].tile_num = 1
        /\ threads[s].meta = Meta(2, 1, 1, 1)
        /\ threads[s].updates = 3
        /\ download_progress[s].progress = Some(TileProgress(1, 2))

\* C20: fetch_tile waits the fixed delay only between attempts: the delays
\* taken in one call are at most its attempts minus one, so none follows the
\* final attempt, whether the attempts failed by status or by exception.
C20_DelayOnlyBetween ==
    (Finished(tile_call) /\ tile_call.attempt >= 1)
        => tile_call.sleeps <= tile_call.attempt - 1

====
